---- MODULE Spec2Model ----
(***************************************************************************)
(* A model of dsgutils.enum.base.Enumeration (src/dsgutils/enum/base.py)   *)
(* and of the exception classes of src/dsgutils/__init__.py.               *)
(*                                                                         *)
(* A Python str is a sequence of characters (one-character strings); a     *)
(* Python list is a cell of the heap, referred to by its address, so that  *)
(* two references to one list see each other's changes.  Positions are     *)
(* 1-based here and 0-based in Python.                                     *)
(***************************************************************************)
EXTENDS Integers, Sequences, FiniteSets, TLC

VARIABLES
    heap,   \* the Python lists that exist: address (index) -> sequence of str
    held,   \* the addresses of the lists the caller holds a reference to
    objs,   \* the Enumeration instances that exist, in order of creation
    last,   \* the last call: its arguments, its outcome, what it returned
    group,  \* the h5 container group: the datasets linked in it, and the unnamed ones
    fs      \* the file system: path -> content, for the paths that exist

vars == <<heap, held, objs, last, group, fs>>

----------------------------------------------------------------------------
(* Bounds of the model *)

MaxEnumLen == 2     \* longest list of ids or names a caller passes
MaxObjs == 2        \* instances alive when create_subset_enum may still be called
MaxHeap == 3        \* lists alive when the caller may still create one

----------------------------------------------------------------------------
(* Python values *)

Rep(c, n) == [i \in 1..n |-> c]

\* Python's None, where a str is expected: no sequence of characters
None == <<"None">>

\* a reference that is None
NoneRef == 0

\* the one character of the model that is not ASCII (U+00E9, two bytes in UTF-8)
EAcute == "u00E9"

SeqToSet(s) == {s[i] : i \in 1..Len(s)}

\* x in s
In(x, s) == \E i \in 1..Len(s) : s[i] = x

\* s.index(x), for x in s: the first position
Index(s, x) == CHOOSE i \in 1..Len(s) : s[i] = x /\ \A k \in 1..(i-1) : s[k] # x

\* max(len(value) for value in s), for s not empty
MaxLen(s) == CHOOSE m \in {Len(s[i]) : i \in 1..Len(s)} :
                 \A i \in 1..Len(s) : Len(s[i]) <= m

\* all lists of at most n elements of S
ListsOf(S, n) == UNION {[1..k -> S] : k \in 0..n}

----------------------------------------------------------------------------
(* Text encoding: dsgutils.enum.ENCODING and get_str *)

\* one character under ENCODING (UTF-8): its bytes
Utf8(c) == IF c = EAcute THEN <<"xC3", "xA9">> ELSE <<c>>

\* str.encode(ENCODING): the bytes of the characters, in order
RECURSIVE Encode(_)
Encode(s) ==
    IF Len(s) = 0 THEN <<>>
    ELSE IF Len(s) = 1 THEN Utf8(s[1])
    ELSE Encode(SubSeq(s, 1, Len(s) \div 2))
         \o Encode(SubSeq(s, (Len(s) \div 2) + 1, Len(s)))

\* bytes.decode(ENCODING): the text, or None when the bytes are no valid text
\* (a first byte without its second one, or a second byte without its first)
Decode(b) ==
    IF \E j \in 1..Len(b) :
          \/ b[j] = "xC3" /\ (j = Len(b) \/ b[j + 1] # "xA9")
          \/ b[j] = "xA9" /\ (j = 1 \/ b[j - 1] # "xC3")
    THEN None
    ELSE LET firsts == SelectSeq(b, LAMBDA x : x # "xA9")
         IN  [i \in 1..Len(firsts) |->
                 IF firsts[i] = "xC3" THEN EAcute ELSE firsts[i]]

----------------------------------------------------------------------------
(* Exception classes: src/dsgutils/__init__.py and Python's built-in ones *)

Bases(e) ==
    CASE e = "DSGridAttributeError"      -> {"DSGridError", "AttributeError"}
      [] e = "DSGridIndexError"          -> {"DSGridError", "IndexError"}
      [] e = "DSGridNotImplementedError" -> {"DSGridError", "NotImplementedError"}
      [] e = "DSGridRuntimeError"        -> {"DSGridError", "RuntimeError"}
      [] e = "DSGridValueError"          -> {"DSGridError", "ValueError"}
      [] e = "IndexError"                -> {"LookupError"}
      [] e = "KeyError"                  -> {"LookupError"}
      [] e = "UnicodeEncodeError"        -> {"ValueError"}
      [] e = "UnicodeDecodeError"        -> {"ValueError"}
      [] e = "NotImplementedError"       -> {"RuntimeError"}
      [] OTHER                           -> {}

\* isinstance(exception of class e, k)
IsKind(e, k) ==
    \/ e = k
    \/ k \in Bases(e)
    \/ \E b \in Bases(e) : k \in Bases(b)

----------------------------------------------------------------------------
(* The classes: Enumeration and two classes derived from it *)

Classes == {"Enumeration", "SectorEnumeration", "GeographyEnumeration"}

\* issubclass(c, d)
IsSubclass(c, d) == c = d \/ d = "Enumeration"

\* Enumeration.DIMENSION_NAME: None, and the name a derived class defines
DIMENSION_NAME(cls) ==
    CASE cls = "SectorEnumeration"    -> <<"s", "e", "c", "t", "o", "r">>
      [] cls = "GeographyEnumeration" -> <<"g", "e", "o">>
      [] OTHER                        -> None

MAX_ID_LEN == 64
MAX_NAME_LEN == 128

----------------------------------------------------------------------------
(* Enumeration: construction and the accessors *)

\* Enumeration.ids: a deep copy of the list self._ids refers to
Ids(h, o) == h[o._ids]

\* Enumeration.names: a deep copy of the list self._names refers to
Names(h, o) == h[o._names]

Raise(kind, msg) == [status |-> kind, msg |-> msg]

\* Enumeration._checkvalues, on the copies the accessors return
checkvalues(ids, names) ==
    IF Len(ids) # Len(names) THEN Raise("DSGridValueError", "match")
    ELSE IF Cardinality(SeqToSet(ids)) # Len(ids)
         THEN Raise("DSGridValueError", "unique")
    ELSE IF Len(ids) = 0 THEN Raise("ValueError", "max() arg is an empty sequence")
    ELSE IF MaxLen(ids) > MAX_ID_LEN THEN Raise("DSGridValueError", "ids")
    ELSE IF MaxLen(names) > MAX_NAME_LEN THEN Raise("DSGridValueError", "names")
    ELSE Raise("ok", "")

\* Enumeration.__init__(self, name, ids, names) on the references ia and na
\* (na is NoneRef when names is omitted): the heap afterwards, the instance
\* and the outcome of _checkvalues
InitCall(h, cls, name, ia, na) ==
    LET h1   == IF na = NoneRef THEN Append(h, h[ia]) ELSE h
        nref == IF na = NoneRef THEN Len(h1) ELSE na
        self == [cls |-> cls, _name |-> name, _ids |-> ia, _names |-> nref,
                 ids0 |-> h1[ia], names0 |-> h1[nref]]
        chk  == checkvalues(Ids(h1, self), Names(h1, self))
    IN  [heap |-> h1, self |-> self, status |-> chk.status, msg |-> chk.msg]

NoCall == [op |-> "none"]

\* an h5 group with no dataset
NoGroup == [linked |-> {}, unnamed |-> {}]

\* no call is in progress: the caller is done with the outcome of the last one
Idle == last = NoCall

\* the caller is done with the outcome of the last call
Return ==
    /\ ~Idle
    /\ last' = NoCall
    /\ UNCHANGED <<heap, held, objs, group, fs>>

\* Enumeration(name, ids, names) on two new lists (names is omitted when omit)
New(cls, name, ids, names, omit, limit) ==
    /\ Len(objs) < limit
    /\ LET h1 == Append(heap, ids)
           ia == Len(h1)
           h2 == IF omit THEN h1 ELSE Append(h1, names)
           na == IF omit THEN NoneRef ELSE Len(h2)
           r  == InitCall(h2, cls, name, ia, na)
           ok == r.status = "ok"
       IN  /\ heap' = IF ok THEN r.heap ELSE heap
           /\ objs' = IF ok THEN Append(objs, r.self) ELSE objs
           /\ last' = [op |-> "__init__", cls |-> cls, name |-> name,
                       ids |-> ids, names |-> IF omit THEN ids ELSE names,
                       omit |-> omit, status |-> r.status, msg |-> r.msg,
                       self |-> IF ok THEN Len(objs) + 1 ELSE 0,
                       nobjs |-> Len(objs)]
    /\ UNCHANGED <<held, group, fs>>

----------------------------------------------------------------------------
(* Lookup and subsetting *)

\* Enumeration.get_name(self, id)
get_name(h, o, x) ==
    LET ids   == Ids(h, o)
        names == Names(h, o)
    IN  IF ~In(x, ids)
        THEN [status |-> "ValueError", value |-> None]    \* list.index
        ELSE IF Index(ids, x) > Len(names)
        THEN [status |-> "IndexError", value |-> None]    \* names[ind]
        ELSE [status |-> "ok", value |-> names[Index(ids, x)]]

\* the loop of _get_subset_ids_names, from position i of self.ids on
RECURSIVE SubsetLoop(_, _, _, _, _, _)
SubsetLoop(sids, snames, r, i, ids, names) ==
    IF i > Len(sids) THEN [status |-> "ok", ids |-> ids, names |-> names]
    ELSE IF ~In(sids[i], r)
    THEN SubsetLoop(sids, snames, r, i + 1, ids, names)
    ELSE IF i > Len(snames)
    THEN [status |-> "IndexError", ids |-> ids, names |-> names]
    ELSE SubsetLoop(sids, snames, r, i + 1,
                    [ids EXCEPT ![Index(r, sids[i])] = sids[i]],
                    [names EXCEPT ![Index(r, sids[i])] = snames[i]])

\* _get_subset_ids_names without its check: the slots never filled are dropped
get_subset_ids_names_dropping(sids, snames, r) ==
    LET l == SubsetLoop(sids, snames, r, 1, Rep(None, Len(r)), Rep(None, Len(r)))
    IN  [l EXCEPT !.ids   = SelectSeq(l.ids, LAMBDA x : x # None),
                  !.names = SelectSeq(l.names, LAMBDA x : x # None)]

\* Enumeration._get_subset_ids_names(self, ids)
get_subset_ids_names(sids, snames, r) ==
    LET l == SubsetLoop(sids, snames, r, 1, Rep(None, Len(r)), Rep(None, Len(r)))
    IN  IF l.status # "ok" THEN l
        ELSE IF \E j \in 1..Len(l.ids) : l.ids[j] = None
        THEN [l EXCEPT !.status = "DSGridRuntimeError"]
        ELSE l

Subset == <<" ", "S", "u", "b", "s", "e", "t">>

\* Enumeration.create_subset_enum(self, ids): the heap afterwards, the new
\* instance and the outcome
create_subset_enum(h, o, r) ==
    LET g == get_subset_ids_names(Ids(h, o), Names(h, o), r)
    IN  IF g.status # "ok"
        THEN [heap |-> h, self |-> o, status |-> g.status, msg |-> "subset"]
        ELSE LET h2 == Append(Append(h, g.ids), g.names)
             IN  InitCall(h2, o.cls, o._name \o Subset, Len(h2) - 1, Len(h2))

GetName(i, x) ==
    /\ i \in 1..Len(objs)
    /\ LET g == get_name(heap, objs[i], x)
       IN  last' = [op |-> "get_name", self |-> i, id |-> x,
                    status |-> g.status, value |-> g.value]
    /\ UNCHANGED <<heap, held, objs, group, fs>>

CreateSubset(i, r) ==
    /\ i \in 1..Len(objs)
    /\ Len(objs) < MaxObjs
    /\ LET c  == create_subset_enum(heap, objs[i], r)
           ok == c.status = "ok"
       IN  /\ heap' = IF ok THEN c.heap ELSE heap
           /\ objs' = IF ok THEN Append(objs, c.self) ELSE objs
           /\ last' = [op |-> "create_subset_enum", self |-> i, r |-> r,
                       status |-> c.status, msg |-> c.msg,
                       value |-> IF ok THEN Len(objs) + 1 ELSE 0,
                       nobjs |-> Len(objs),
                       name |-> objs[i]._name,
                       ids |-> Ids(heap, objs[i]),
                       names |-> Names(heap, objs[i])]
    /\ UNCHANGED <<held, group, fs>>

----------------------------------------------------------------------------
(* Equality and is_subset *)

\* isinstance(o, cls)
IsInstance(o, cls) == IsSubclass(o.cls, cls)

\* o.__dict__, the lists by their values (== on lists compares the elements)
Dict(h, o) == [_name |-> o._name, _ids |-> h[o._ids], _names |-> h[o._names]]

\* __eq__ without its isinstance test
eq_any_class(h, self, other) == Dict(h, self) = Dict(h, other)

\* Enumeration.__eq__(self, other)
__eq__(h, self, other) ==
    IsInstance(other, self.cls) /\ Dict(h, self) = Dict(h, other)

\* a == b. Python asks the right operand first when its class is a proper
\* subclass of the left operand's class, and the left operand otherwise; an
\* Enumeration always answers (never NotImplemented), so the first answer stands.
PyEq(h, a, b) ==
    IF a.cls # b.cls /\ IsSubclass(b.cls, a.cls)
    THEN __eq__(h, b, a)
    ELSE __eq__(h, a, b)

\* is_subset with the containment test turned round
is_superset(h, self, other) ==
    IF ~IsInstance(other, self.cls) THEN FALSE
    ELSE \A k \in 1..Len(Ids(h, other)) : In(Ids(h, other)[k], Ids(h, self))

\* Enumeration.is_subset(self, other_enum)
is_subset(h, self, other) ==
    IF ~IsInstance(other, self.cls) THEN FALSE
    ELSE \A k \in 1..Len(Ids(h, self)) : In(Ids(h, self)[k], Ids(h, other))

Eq(i, j) ==
    /\ i \in 1..Len(objs) /\ j \in 1..Len(objs)
    /\ last' = [op |-> "eq", a |-> i, b |-> j, status |-> "ok",
                value |-> PyEq(heap, objs[i], objs[j])]
    /\ UNCHANGED <<heap, held, objs, group, fs>>

IsSubset(i, j) ==
    /\ i \in 1..Len(objs) /\ j \in 1..Len(objs)
    /\ last' = [op |-> "is_subset", a |-> i, b |-> j, status |-> "ok",
                value |-> is_subset(heap, objs[i], objs[j])]
    /\ UNCHANGED <<heap, held, objs, group, fs>>

----------------------------------------------------------------------------
(* Persistence in an h5 group.  A dataset is a record: the name it is linked
   under, its attribute "name", and the columns "id" and "name" of its rows,
   each value a sequence of bytes. *)

\* a value stored in a fixed-width bytes field of w bytes
Truncate(b, w) == IF Len(b) > w THEN SubSeq(b, 1, w) ELSE b

IsAscii(s) == \A i \in 1..Len(s) : s[i] # EAcute

\* h5group.create_dataset(name, ...) when no dataset has that name: the
\* dataset is linked under its name, or is anonymous when the name is None
Put(g, d) ==
    IF d.key = None
    THEN [g EXCEPT !.unnamed = @ \cup {d}]
    ELSE [g EXCEPT !.linked = {x \in @ : x.key # d.key} \cup {d}]

\* Enumeration.persist(self, h5group): the group afterwards and the outcome.
\* np.array(self.ids) is an array of str, which numpy converts to the bytes of
\* the "id" field with the ASCII codec; the names are encoded with ENCODING.
persist(g, h, o) ==
    LET ids   == Ids(h, o)
        names == Names(h, o)
        d0 == [key |-> DIMENSION_NAME(o.cls), attrs_name |-> None,
               id |-> Rep(<<>>, Len(ids)), name |-> Rep(<<>>, Len(ids))]
        d1 == [d0 EXCEPT !.attrs_name = o._name]
        d2 == [d1 EXCEPT !.id = [k \in 1..Len(ids) |-> Truncate(ids[k], MAX_ID_LEN)]]
        d3 == [d2 EXCEPT !.name =
                 [k \in 1..Len(names) |-> Truncate(Encode(names[k]), MAX_NAME_LEN)]]
    IN  IF \E x \in g.linked : x.key = d0.key
        THEN [group |-> g, status |-> "ValueError"]       \* the name already exists
        ELSE IF \E k \in 1..Len(ids) : ~IsAscii(ids[k])
        THEN [group |-> Put(g, d1), status |-> "UnicodeEncodeError"]
        ELSE [group |-> Put(g, d3), status |-> "ok"]

\* Enumeration.load(cls, h5group): the heap afterwards, the new instance and
\* the outcome
load(cls, g, h) ==
    LET key == DIMENSION_NAME(cls)
        d   == CHOOSE x \in g.linked : x.key = key
        ids   == [k \in 1..Len(d.id) |-> Decode(d.id[k])]
        names == [k \in 1..Len(d.name) |-> Decode(d.name[k])]
        h2  == Append(Append(h, ids), names)
        none == [cls |-> cls]
    IN  IF key = None
        THEN [heap |-> h, self |-> none, status |-> "TypeError", msg |-> "key"]
        ELSE IF ~\E x \in g.linked : x.key = key
        THEN [heap |-> h, self |-> none, status |-> "KeyError", msg |-> "key"]
        ELSE IF In(None, ids) \/ In(None, names)
        THEN [heap |-> h, self |-> none, status |-> "UnicodeDecodeError", msg |-> "get_str"]
        ELSE InitCall(h2, cls, d.attrs_name, Len(h2) - 1, Len(h2))

Persist(i) ==
    /\ i \in 1..Len(objs)
    /\ LET r == persist(group, heap, objs[i])
       IN  /\ group' = r.group
           /\ last' = [op |-> "persist", self |-> i, status |-> r.status,
                       fresh |-> group = NoGroup]
    /\ UNCHANGED <<heap, held, objs, fs>>

Load(cls) ==
    /\ Len(objs) < MaxObjs
    /\ LET r  == load(cls, group, heap)
           ok == r.status = "ok"
       IN  /\ heap' = IF ok THEN r.heap ELSE heap
           /\ objs' = IF ok THEN Append(objs, r.self) ELSE objs
           /\ last' = [op |-> "load", cls |-> cls, status |-> r.status,
                       value |-> IF ok THEN Len(objs) + 1 ELSE 0,
                       persisted |-> IF last.op = "persist" /\ last.status = "ok"
                                     THEN last.self ELSE 0]
    /\ UNCHANGED <<held, group, fs>>

----------------------------------------------------------------------------
(* to_csv.  The file system is a set of <<path, content>> pairs, one per
   path that exists; the content of a csv file is its sequence of rows. *)

\* str.lower(), on the upper-case letters of the model
Lower(c) ==
    CASE c = "S" -> "s"
      [] c = "X" -> "x"
      [] c = "A" -> "a"
      [] c = "B" -> "b"
      [] OTHER   -> c

\* os.path.join(a, b)
Join(a, b) ==
    IF Len(b) > 0 /\ b[1] = "/" THEN b
    ELSE IF Len(a) = 0 \/ a[Len(a)] = "/" THEN a \o b
    ELSE a \o <<"/">> \o b

\* enumdata_folder: os.path.join(os.path.dirname(__file__), "enumeration_data/")
enumdata_folder == Join(<<"dirname(__file__)">>, <<"enumeration_data", "/">>)

\* Enumeration._default_filename(self)
default_filename(o) ==
    [k \in 1..Len(o._name) |-> IF Lower(o._name[k]) = " " THEN "_" ELSE Lower(o._name[k])]
    \o <<".", "c", "s", "v">>

\* Enumeration._default_filepath(self)
default_filepath(o) == Join(enumdata_folder, default_filename(o))

\* os.path.exists(p)
Exists(files, p) == \E f \in files : f[1] = p

\* the file at p is written with content c
Write(files, p, c) == {f \in files : f[1] # p} \cup {<<p, c>>}

\* pd.DataFrame(list(zip(self.ids, self.names)), columns=['id', 'name']) as csv
\* without the index: the header row, then one row per pair
Csv(ids, names) ==
    <<<< <<"i", "d">>, <<"n", "a", "m", "e">> >>>>
    \o [k \in 1..(IF Len(ids) < Len(names) THEN Len(ids) ELSE Len(names)) |->
           <<ids[k], names[k]>>]

\* to_csv with filedir taking precedence over filepath
to_csv_dir_first(files, h, o, filedir, filepath, overwrite) ==
    LET p == IF filedir # None THEN Join(filedir, default_filename(o))
             ELSE IF filepath # None THEN filepath
             ELSE default_filepath(o)
    IN  IF ~overwrite /\ Exists(files, p)
        THEN [fs |-> files, status |-> "DSGridRuntimeError", msg |-> p]
        ELSE [fs |-> Write(files, p, Csv(Ids(h, o), Names(h, o))),
              status |-> "ok", msg |-> <<>>]

\* Enumeration.to_csv(self, filedir, filepath, overwrite): the file system
\* afterwards and the outcome (the message of the error names the path)
to_csv(files, h, o, filedir, filepath, overwrite) ==
    LET p == IF filepath # None THEN filepath
             ELSE IF filedir # None THEN Join(filedir, default_filename(o))
             ELSE default_filepath(o)
    IN  IF ~overwrite /\ Exists(files, p)
        THEN [fs |-> files, status |-> "DSGridRuntimeError", msg |-> p]
        ELSE [fs |-> Write(files, p, Csv(Ids(h, o), Names(h, o))),
              status |-> "ok", msg |-> <<>>]

ToCsv(i, filedir, filepath, overwrite) ==
    /\ i \in 1..Len(objs)
    /\ LET r == to_csv(fs, heap, objs[i], filedir, filepath, overwrite)
       IN  /\ fs' = r.fs
           /\ last' = [op |-> "to_csv", self |-> i, filedir |-> filedir,
                       filepath |-> filepath, overwrite |-> overwrite,
                       status |-> r.status, msg |-> r.msg, before |-> fs]
    /\ UNCHANGED <<heap, held, objs, group>>

----------------------------------------------------------------------------
(* The strings of the model *)

IdStrs == {<<"a">>, <<"b">>, <<"c">>}
NameStrs == {<<"A">>, <<"B">>}
EnumNames == {<<"S", " ", "X">>, <<"t">>}

NoFiles == {}

Init ==
    /\ heap = <<>>
    /\ held = {}
    /\ objs = <<>>
    /\ last = NoCall
    /\ group = NoGroup
    /\ fs = NoFiles

----------------------------------------------------------------------------
(* Spec: one enumeration, its lookups and its subsets *)

Next ==
    \/ Idle /\ \E cls \in {"Enumeration", "SectorEnumeration"},
                   ids \in ListsOf(IdStrs, MaxEnumLen) :
          \/ \E names \in ListsOf(NameStrs, MaxEnumLen) :
                New(cls, <<"S", " ", "X">>, ids, names, FALSE, 1)
          \/ New(cls, <<"S", " ", "X">>, ids, <<>>, TRUE, 1)
    \/ Idle /\ \E i \in 1..Len(objs), x \in IdStrs : GetName(i, x)
    \/ Idle /\ \E i \in 1..Len(objs), r \in ListsOf(IdStrs, MaxEnumLen) :
          CreateSubset(i, r)
    \/ Return

Spec == Init /\ [][Next]_vars

----------------------------------------------------------------------------
(* SpecCtor: the constructor on lists whose strings reach the length limits *)

CtorIdStrs ==
    {<<"a">>, <<"b">>, Rep("a", MAX_ID_LEN), Rep("a", MAX_ID_LEN + 1),
     Rep(EAcute, (MAX_ID_LEN \div 2) + 1)}

CtorNameStrs ==
    {<<"A">>, Rep("n", MAX_NAME_LEN), Rep("n", MAX_NAME_LEN + 1),
     Rep(EAcute, (MAX_NAME_LEN \div 2) + 1)}

NextCtor ==
    \/ Idle /\ \E cls \in Classes, ids \in ListsOf(CtorIdStrs, MaxEnumLen) :
          \/ \E names \in ListsOf(CtorNameStrs, MaxEnumLen) :
                New(cls, <<"t">>, ids, names, FALSE, 1)
          \/ New(cls, <<"t">>, ids, <<>>, TRUE, 1)
    \/ Return

SpecCtor == Init /\ [][NextCtor]_vars

----------------------------------------------------------------------------
(* The data-model invariants of an (ids, names) pair, as the specification
   states them: lengths are encoded lengths *)

ByteLen(s) == Len(Encode(s))

Distinct(ids) == \A i, j \in 1..Len(ids) : ids[i] = ids[j] => i = j

DataModelValid(ids, names) ==
    /\ Len(ids) = Len(names)
    /\ Distinct(ids)
    /\ \A i \in 1..Len(ids) : ByteLen(ids[i]) <= MAX_ID_LEN
    /\ \A i \in 1..Len(names) : ByteLen(names[i]) <= MAX_NAME_LEN

\* C1: the constructor succeeds on every pair (ids, names) that satisfies the
\* data-model invariants, the pair of empty sequences included, and the
\* accessors then return the given ids and the given names
C1_ConstructValid ==
    (last.op = "__init__" /\ ~last.omit /\ DataModelValid(last.ids, last.names))
    => /\ last.status = "ok"
       /\ last.self = Len(objs)
       /\ Ids(heap, objs[last.self]) = last.ids
       /\ Names(heap, objs[last.self]) = last.names

\* C2: the constructor fails with a DSGridValueError and yields no instance
\* when the lengths differ, when two ids are equal, when an id is longer than
\* 64 bytes encoded or a name longer than 128 bytes encoded; the lengths are
\* compared first
C2_ConstructInvalid ==
    last.op = "__init__"
    => /\ ( \/ Len(last.ids) # Len(last.names)
            \/ ~Distinct(last.ids)
            \/ \E i \in 1..Len(last.ids) : ByteLen(last.ids[i]) > MAX_ID_LEN
            \/ \E i \in 1..Len(last.names) : ByteLen(last.names[i]) > MAX_NAME_LEN )
          => /\ last.status = "DSGridValueError"
             /\ last.self = 0
             /\ Len(objs) = last.nobjs
       /\ Len(last.ids) # Len(last.names) => last.msg = "match"

\* The name e pairs with the id x
PairedName(ids, names, x) == names[Index(ids, x)]

\* C3: for a requested list r of ids of e, create_subset_enum(r) returns a new
\* instance with the ids of r in r's order, the names e pairs with them, the
\* name of e followed by ' Subset', and leaves e as it was
C3_SubsetOrder ==
    (last.op = "create_subset_enum" /\ \A k \in 1..Len(last.r) : In(last.r[k], last.ids))
    => /\ last.status = "ok"
       /\ last.value = Len(objs) /\ last.value = last.nobjs + 1
       /\ Ids(heap, objs[last.value]) = last.r
       /\ Len(Names(heap, objs[last.value])) = Len(last.r)
       /\ \A k \in 1..Len(last.r) :
             Names(heap, objs[last.value])[k] = PairedName(last.ids, last.names, last.r[k])
       /\ objs[last.value]._name = last.name \o Subset
       /\ objs[last.value].cls = objs[last.self].cls
       /\ Ids(heap, objs[last.self]) = last.ids
       /\ Names(heap, objs[last.self]) = last.names
       /\ objs[last.self]._name = last.name

\* C4: when some requested id is not an id of e, create_subset_enum(r) fails
\* with a DSGridRuntimeError and no instance is created
C4_SubsetMissing ==
    (last.op = "create_subset_enum" /\ \E k \in 1..Len(last.r) : ~In(last.r[k], last.ids))
    => /\ last.status = "DSGridRuntimeError"
       /\ last.value = 0
       /\ Len(objs) = last.nobjs

\* a request with an id of e and an id that e does not have was refused
C4_Witness ==
    /\ last.op = "create_subset_enum"
    /\ \E k \in 1..Len(last.r) : ~In(last.r[k], last.ids)
    /\ \E k \in 1..Len(last.r) : In(last.r[k], last.ids)
    /\ last.status = "DSGridRuntimeError"

\* C9: get_name(x) returns the name at the position of x in ids, and fails
\* with an index-kind error when x is not an id
C9_GetName ==
    last.op = "get_name"
    => LET ids   == Ids(heap, objs[last.self])
           names == Names(heap, objs[last.self])
       IN  /\ \A i \in 1..Len(ids) :
                 ids[i] = last.id => last.status = "ok" /\ last.value = names[i]
           /\ ~In(last.id, ids)
              => \/ IsKind(last.status, "IndexError")
                 \/ IsKind(last.status, "LookupError")

----------------------------------------------------------------------------
(* SpecPair: two enumerations, compared *)

PairIdStrs == {<<"a">>, <<"b">>}

NextPair ==
    \/ Idle /\ \E cls \in Classes, name \in EnumNames,
                   ids \in ListsOf(PairIdStrs, MaxEnumLen) :
          \/ \E names \in ListsOf(NameStrs, MaxEnumLen) :
                New(cls, name, ids, names, FALSE, 2)
          \/ New(cls, name, ids, <<>>, TRUE, 2)
    \/ Idle /\ \E i \in 1..Len(objs), j \in 1..Len(objs) : Eq(i, j)
    \/ Idle /\ \E i \in 1..Len(objs), j \in 1..Len(objs) : IsSubset(i, j)
    \/ Return

SpecPair == Init /\ [][NextPair]_vars

SameData(a, b) ==
    /\ a._name = b._name
    /\ Ids(heap, a) = Ids(heap, b)
    /\ Names(heap, a) = Names(heap, b)

\* C6: a == b is true exactly when b has the concrete type of a and the two
\* have equal name, ids and names; an instance of a derived class is never
\* equal to an instance of the base class, on either side of ==
C6_Equality ==
    last.op = "eq"
    => LET a == objs[last.a]
           b == objs[last.b]
       IN  last.value = (a.cls = b.cls /\ SameData(a, b))

\* a base-class instance on the left was compared with a derived-class
\* instance holding the same name, ids and names
C6_Witness ==
    /\ last.op = "eq"
    /\ objs[last.a].cls = "Enumeration"
    /\ objs[last.b].cls = "SectorEnumeration"
    /\ SameData(objs[last.a], objs[last.b])
    /\ last.value = FALSE

IdsWithin(a, b) == SeqToSet(Ids(heap, a)) \subseteq SeqToSet(Ids(heap, b))

\* C7 as stated: a.is_subset(b) is false whenever the concrete type of b is
\* not that of a, an instance of a derived class included; with the same
\* concrete type it is true exactly when every id of a is an id of b
C7_IsSubsetExactType ==
    last.op = "is_subset"
    => LET a == objs[last.a]
           b == objs[last.b]
       IN  /\ a.cls # b.cls => last.value = FALSE
           /\ a.cls = b.cls => last.value = IdsWithin(a, b)

\* C7 as amended: a.is_subset(b) is false whenever b is not an instance of
\* the class of a (of that class or of a class derived from it); when it is,
\* the result is true exactly when every id of a is an id of b, whatever the
\* names and the order
C7_IsSubsetInstance ==
    last.op = "is_subset"
    => LET a == objs[last.a]
           b == objs[last.b]
       IN  /\ ~IsSubclass(b.cls, a.cls) => last.value = FALSE
           /\ IsSubclass(b.cls, a.cls) => last.value = IdsWithin(a, b)

\* a base-class instance was found to be a subset of a derived-class instance
\* that has its ids in another order and with other names
C7_Witness ==
    /\ last.op = "is_subset"
    /\ objs[last.a].cls = "Enumeration"
    /\ objs[last.b].cls = "SectorEnumeration"
    /\ Ids(heap, objs[last.a]) # Ids(heap, objs[last.b])
    /\ Names(heap, objs[last.a]) # Names(heap, objs[last.b])
    /\ Len(Ids(heap, objs[last.a])) = Len(Ids(heap, objs[last.b]))
    /\ last.value = TRUE

----------------------------------------------------------------------------
(* SpecAlias: the caller keeps the lists it passes and the lists it is given,
   and changes them *)

AliasStrs == {<<"a">>, <<"b">>}

\* the caller makes a list
NewList(v) ==
    /\ Len(heap) < MaxHeap
    /\ heap' = Append(heap, v)
    /\ held' = held \cup {Len(heap) + 1}
    /\ last' = [op |-> "list", status |-> "ok", value |-> Len(heap) + 1]
    /\ UNCHANGED <<objs, group, fs>>

\* Enumeration(name, ids, names) on lists the caller holds (names is omitted
\* when na is NoneRef)
Construct(cls, name, ia, na) ==
    /\ Len(objs) < 1
    /\ ia \in held /\ na \in held \cup {NoneRef}
    /\ LET r  == InitCall(heap, cls, name, ia, na)
           ok == r.status = "ok"
       IN  /\ heap' = IF ok THEN r.heap ELSE heap
           /\ objs' = IF ok THEN Append(objs, r.self) ELSE objs
           /\ last' = [op |-> "__init__", cls |-> cls, name |-> name,
                       ids |-> heap[ia], names |-> r.heap[r.self._names],
                       omit |-> na = NoneRef, status |-> r.status, msg |-> r.msg,
                       self |-> IF ok THEN Len(objs) + 1 ELSE 0,
                       nobjs |-> Len(objs)]
    /\ UNCHANGED <<held, group, fs>>

\* x = e.ids: the caller is given a new list, a copy
ReadIds(i) ==
    /\ i \in 1..Len(objs)
    /\ Len(heap) < MaxHeap
    /\ heap' = Append(heap, Ids(heap, objs[i]))
    /\ held' = held \cup {Len(heap) + 1}
    /\ last' = [op |-> "ids", self |-> i, status |-> "ok", value |-> Len(heap) + 1]
    /\ UNCHANGED <<objs, group, fs>>

\* x = e.names: the caller is given a new list, a copy
ReadNames(i) ==
    /\ i \in 1..Len(objs)
    /\ Len(heap) < MaxHeap
    /\ heap' = Append(heap, Names(heap, objs[i]))
    /\ held' = held \cup {Len(heap) + 1}
    /\ last' = [op |-> "names", self |-> i, status |-> "ok", value |-> Len(heap) + 1]
    /\ UNCHANGED <<objs, group, fs>>

\* the caller changes a list it holds: x.append(s), x.pop(), x[k] = s
ListAppend(a, s) ==
    /\ a \in held
    /\ Len(heap[a]) < MaxEnumLen
    /\ heap' = [heap EXCEPT ![a] = Append(@, s)]
    /\ last' = [op |-> "append", status |-> "ok", value |-> a]
    /\ UNCHANGED <<held, objs, group, fs>>

ListPop(a) ==
    /\ a \in held
    /\ Len(heap[a]) > 0
    /\ heap' = [heap EXCEPT ![a] = SubSeq(@, 1, Len(@) - 1)]
    /\ last' = [op |-> "pop", status |-> "ok", value |-> a]
    /\ UNCHANGED <<held, objs, group, fs>>

ListSet(a, k, s) ==
    /\ a \in held
    /\ k \in 1..Len(heap[a])
    /\ heap[a][k] # s
    /\ heap' = [heap EXCEPT ![a][k] = s]
    /\ last' = [op |-> "setitem", status |-> "ok", value |-> a]
    /\ UNCHANGED <<held, objs, group, fs>>

NextAlias ==
    \/ \E v \in ListsOf(AliasStrs, MaxEnumLen) : NewList(v)
    \/ \E ia \in held, na \in held \cup {NoneRef} :
          Construct("Enumeration", <<"t">>, ia, na)
    \/ \E i \in 1..Len(objs) : ReadIds(i)
    \/ \E i \in 1..Len(objs) : ReadNames(i)
    \/ \E a \in held, s \in AliasStrs : ListAppend(a, s)
    \/ \E a \in held : ListPop(a)
    \/ \E a \in held, k \in 1..MaxEnumLen, s \in AliasStrs : ListSet(a, k, s)
    \/ \E i \in 1..Len(objs), r \in ListsOf(AliasStrs, MaxEnumLen) :
          Len(heap) < MaxHeap /\ CreateSubset(i, r)

SpecAlias == Init /\ [][NextAlias]_vars

\* C8: every instance that exists satisfies the data-model invariants and has
\* the ids and names it was constructed with, whatever the caller does to the
\* lists it holds
C8_InstancesStayValid ==
    \A i \in 1..Len(objs) :
       /\ DataModelValid(Ids(heap, objs[i]), Names(heap, objs[i]))
       /\ Ids(heap, objs[i]) = objs[i].ids0
       /\ Names(heap, objs[i]) = objs[i].names0

----------------------------------------------------------------------------
(* SpecPersist: an enumeration is persisted in a group and loaded from it *)

PersistIdStrs == {<<"a">>, <<"b">>, <<EAcute>>}

PersistNameStrs ==
    {<<"A">>, <<EAcute>>, Rep("n", MAX_NAME_LEN), Rep(EAcute, (MAX_NAME_LEN \div 2) + 1)}

NextPersist ==
    \/ Idle /\ \E cls \in Classes, ids \in ListsOf(PersistIdStrs, MaxEnumLen) :
          \/ \E names \in ListsOf(PersistNameStrs, MaxEnumLen) :
                New(cls, <<"S", " ", "X">>, ids, names, FALSE, 1)
          \/ New(cls, <<"S", " ", "X">>, ids, <<>>, TRUE, 1)
    \/ \E i \in 1..Len(objs) : Persist(i)
    \/ \E cls \in Classes : Load(cls)
    \/ Return

SpecPersist == Init /\ [][NextPersist]_vars

\* C5: persisting a valid enumeration e in a group and then loading from the
\* group with the class of e gives an instance equal to e: same concrete
\* type, same name, same ids and names in the same order
C5_RoundTrip ==
    /\ ( /\ last.op = "persist"
         /\ last.fresh
         /\ DataModelValid(Ids(heap, objs[last.self]), Names(heap, objs[last.self])) )
       => last.status = "ok"
    /\ ( /\ last.op = "load"
         /\ last.persisted > 0
         /\ last.cls = objs[last.persisted].cls
         /\ DataModelValid(Ids(heap, objs[last.persisted]),
                           Names(heap, objs[last.persisted])) )
       => /\ last.status = "ok"
          /\ last.value = Len(objs)
          /\ objs[last.value].cls = objs[last.persisted].cls
          /\ SameData(objs[last.value], objs[last.persisted])
          /\ PyEq(heap, objs[last.persisted], objs[last.value])

----------------------------------------------------------------------------
(* SpecCsv: an enumeration is written to csv files, some of which exist *)

FileDirs == {<<"d">>, <<"d", "/">>}

FilePaths == {<<"o">>, <<"d", "/", "t", ".", "c", "s", "v">>}

\* the content of a file that another program wrote
Old == <<>>

\* the files that may exist before the first call
OldPaths ==
    {<<"o">>,
     <<"d", "/", "t", ".", "c", "s", "v">>,
     <<"d", "/", "s", "_", "x", ".", "c", "s", "v">>,
     enumdata_folder \o <<"t", ".", "c", "s", "v">>}

InitCsv ==
    /\ heap = <<>>
    /\ held = {}
    /\ objs = <<>>
    /\ last = NoCall
    /\ group = NoGroup
    /\ fs \in {{<<p, Old>> : p \in P} : P \in SUBSET OldPaths}

NextCsv ==
    \/ Idle /\ \E cls \in Classes, name \in EnumNames,
                   ids \in ListsOf(PairIdStrs, MaxEnumLen) :
          \E names \in ListsOf({<<"A">>}, MaxEnumLen) :
             New(cls, name, ids, names, FALSE, 1)
    \/ Idle /\ \E i \in 1..Len(objs), filedir \in FileDirs \cup {None},
                   filepath \in FilePaths \cup {None}, overwrite \in BOOLEAN :
          ToCsv(i, filedir, filepath, overwrite)
    \/ Return

SpecCsv == InitCsv /\ [][NextCsv]_vars

\* the default file name as the specification words it: the name lower-cased,
\* its spaces replaced by underscores, plus '.csv'
ClaimedFilename(name) ==
    [k \in 1..Len(name) |-> IF name[k] = " " THEN "_" ELSE Lower(name[k])]
    \o <<".", "c", "s", "v">>

\* the target path in the priority order of the specification
ClaimedPath(name, filedir, filepath) ==
    IF filepath # None THEN filepath
    ELSE IF filedir # None THEN Join(filedir, ClaimedFilename(name))
    ELSE Join(enumdata_folder, ClaimedFilename(name))

\* C10: to_csv resolves its target as filepath, else filedir joined with the
\* default file name, else the default directory joined with it; when the
\* target exists and overwrite is false it fails with a DSGridRuntimeError
\* and every file is as it was; otherwise the target, and no other path, is
\* written
C10_ToCsv ==
    last.op = "to_csv"
    => LET e == objs[last.self]
           p == ClaimedPath(e._name, last.filedir, last.filepath)
       IN  IF Exists(last.before, p) /\ ~last.overwrite
           THEN /\ last.status = "DSGridRuntimeError"
                /\ last.msg = p
                /\ fs = last.before
           ELSE /\ last.status = "ok"
                /\ <<p, Csv(Ids(heap, e), Names(heap, e))>> \in fs
                /\ \A f \in fs : f[1] # p => f \in last.before
                /\ \A f \in last.before : f[1] # p => f \in fs
                /\ \A f, g \in fs : f[1] = g[1] => f = g

\* with filedir and filepath both given and the file at filepath there, though
\* none at the default name in filedir, the call without overwrite was refused
C10_Witness ==
    /\ last.op = "to_csv"
    /\ last.filepath # None /\ last.filedir # None
    /\ ~last.overwrite
    /\ Exists(last.before, last.filepath)
    /\ ~Exists(last.before, Join(last.filedir, ClaimedFilename(objs[last.self]._name)))
    /\ last.status = "DSGridRuntimeError"
    /\ fs = last.before

====
